---- MODULE Spec2Model ----
(***************************************************************************)
(* A model of Downloadr (src/src/index.ts): size discovery, chunk          *)
(* planning, the concurrent ranged fetches with their positional file      *)
(* writes, and the event/failure model of download().                      *)
(*                                                                         *)
(* Scheduling.  Node runs one callback at a time and drains the microtask  *)
(* queue after each I/O callback, so the continuation of download() that   *)
(* a settling chunk promise wakes up (the code after `await`) runs before  *)
(* the callback of any other socket or file operation.  Each transport or  *)
(* file callback is therefore one action, and the join of download() is    *)
(* part of the action whose callback settles the promise.                  *)
(*                                                                         *)
(* Environment.  The remote server, the transport and the file system are  *)
(* the environment: response status, headers, the split of a body into     *)
(* 'data' deliveries, transport errors and write errors are chosen         *)
(* nondeterministically.  Bytes are not modelled one by one: the file is   *)
(* its length, the length of the content that predates the run and the     *)
(* set of byte intervals written so far.  The listeners of the events are  *)
(* the caller's: they return normally, so that this.emit(...) never        *)
(* throws into the code that emits.                                        *)
(***************************************************************************)
EXTENDS Integers, Sequences, FiniteSets, TLC

\* ------------------------------------------------------------------ bounds
\* Largest number of chunks of a multi-chunk run of SpecEvents.
MaxChunks == 2
\* Largest number of 'data' deliveries one response body is split into.
MaxPieces == 2
\* Bytes by which a pre-existing output file is longer than the remote file.
StaleTail == 5
\* Inputs of the planner specification SpecPlan.
MaxPlanSize == 12
MaxPlanCount == 6
\* Largest chunk count the sizes of the probe specification SpecProbe reach.
MaxProbeChunks == 10
\* Largest number of download() runs in a row (SpecRuns).
MaxRuns == 2

\* --------------------------------------------------------------- constants
\* const CHUNK_COUNT = 3
CHUNK_COUNT == 3
\* 100 * 1024 * 1024, the size policy of getFileSize
THRESHOLD == 100 * 1024 * 1024
\* resolve(-1): the size is unknown
UNKNOWN == -1
\* the `end` of the whole-file fetch, downloadChunk(0, Infinity)
Infinity == 2147483647

\* DownloadrEvents
DOWNLOAD_START == "downloadStart"
DOWNLOAD_COMPLETE == "downloadComplete"
CHUNK_DOWNLOAD_PROGRESS == "chunkDownloadProgress"
CHUNK_DOWNLOADED == "chunkDownloaded"
CHUNK_DOWNLOAD_FAILED == "chunkDownloadFailed"
DOWNLOAD_FAILED == "downloadFailed"

\* ----------------------------------------------------------------- helpers
Min(a, b) == IF a < b THEN a ELSE b
Max(a, b) == IF a > b THEN a ELSE b
\* Math.ceil(a / b) for a >= 0, b >= 1
Ceil(a, b) == (a + b - 1) \div b

\* Errors: the status error of downloadChunk, a transport error of a request
\* ("req") or of a response stream ("res"), a file-system error ("fs").
NoError == [kind |-> "none", code |-> 0, chunk |-> 0]
StatusError(c, status) == [kind |-> "status", code |-> status, chunk |-> c]
TransportError(where, c) == [kind |-> where, code |-> 0, chunk |-> c]
FsError(code) == [kind |-> "fs", code |-> code, chunk |-> 0]

\* One entry of the event trace: the event's name, the task that emitted it
\* (0: download() itself) and the error it carries (NoError: none).
Event(type, c, err) == [type |-> type, chunk |-> c, err |-> err]

\* this.emit(...): the trace with event e emitted.  Events of download()
\* are appended.  Different tasks run concurrently and no listener of the
\* model tells in which order two of them emitted between two events of
\* download(), so the trace keeps one representative of all these orders:
\* after the last event of download(), the events are listed task by task,
\* each task's events in the order it emitted them.
LastOwn(tr) ==
  LET own == {k \in 1..Len(tr) : tr[k].chunk = 0}
  IN IF own = {} THEN 0 ELSE CHOOSE k \in own : \A j \in own : j <= k
Emit(tr, e) ==
  IF e.chunk = 0 THEN Append(tr, e)
  ELSE LET at == LastOwn(tr)
                   + Cardinality({k \in (LastOwn(tr) + 1)..Len(tr) : tr[k].chunk <= e.chunk})
       IN SubSeq(tr, 1, at) \o <<e>> \o SubSeq(tr, at + 1, Len(tr))
RECURSIVE EmitAll(_, _)
EmitAll(tr, evs) ==
  IF evs = <<>> THEN tr ELSE EmitAll(Emit(tr, Head(evs)), Tail(evs))

\* -------------------------------------------------------- getProtocolClient
\* A URL is the sequence of its characters.
\* String.prototype.toLowerCase, on the letters the URLs of the model use.
toLowerCase(str) ==
  [k \in DOMAIN str |->
     CASE str[k] = "H" -> "h" [] str[k] = "T" -> "t" [] str[k] = "P" -> "p"
       [] str[k] = "S" -> "s" [] str[k] = "F" -> "f" [] OTHER -> str[k]]
\* String.prototype.startsWith
startsWith(str, prefix) ==
  Len(str) >= Len(prefix) /\ SubSeq(str, 1, Len(prefix)) = prefix

\* (a comparison that forgets toLowerCase)
getProtocolClientCaseSensitive(u) ==
  IF startsWith(u, <<"h", "t", "t", "p", "s", ":">>) THEN "https" ELSE "http"

\* url.toLowerCase().startsWith('https:') ? https : http
getProtocolClient(u) ==
  IF startsWith(toLowerCase(u), <<"h", "t", "t", "p", "s", ":">>) THEN "https" ELSE "http"

\* ------------------------------------------------------------- getFileSize
\* Response headers of the probe.  A Content-Range header is
\* `bytes <first>-<last>/<total>`; a component that is not a number (`*`)
\* is -1.
NoContentRange == [present |-> FALSE, first |-> 0, last |-> 0, total |-> 0]
ContentRange(f, l, t) == [present |-> TRUE, first |-> f, last |-> l, total |-> t]
NoContentLength == [present |-> FALSE, value |-> 0]
ContentLength(v) == [present |-> TRUE, value |-> v]

\* contentRange.match(/bytes \d+-\d+\/(\d+)/)
sizeMatch(cr) == cr.present /\ cr.first >= 0 /\ cr.last >= 0 /\ cr.total >= 0

\* (a policy that rounds the quotient down)
ChunkCountForRoundedDown(size) ==
  IF size < THRESHOLD THEN 1 ELSE size \div THRESHOLD

\* (a policy without the case of the small file)
ChunkCountForAlwaysCeil(size) == Ceil(size, THRESHOLD)

\* size < 100 * 1024 * 1024 ? 1 : Math.ceil(size / (100 * 1024 * 1024))
ChunkCountFor(size) == IF size < THRESHOLD THEN 1 ELSE Ceil(size, THRESHOLD)

\* (a callback that tries Content-Length before Content-Range)
ResolvedSizeLengthFirst(h) ==
  IF h.contentLength.present THEN h.contentLength.value
  ELSE IF sizeMatch(h.contentRange) THEN h.contentRange.total
  ELSE UNKNOWN

\* The value getFileSize resolves with.
ResolvedSize(h) ==
  IF sizeMatch(h.contentRange) THEN h.contentRange.total
  ELSE IF h.contentLength.present THEN h.contentLength.value
  ELSE UNKNOWN

\* (a Content-Length fallback that leaves the default chunk count in place)
ResolvedChunkCountRangeOnly(h) ==
  IF sizeMatch(h.contentRange) THEN ChunkCountFor(h.contentRange.total)
  ELSE IF h.contentLength.present THEN CHUNK_COUNT
  ELSE 1

\* The value getFileSize assigns to this.chunkCount.
ResolvedChunkCount(h) ==
  IF sizeMatch(h.contentRange) THEN ChunkCountFor(h.contentRange.total)
  ELSE IF h.contentLength.present THEN ChunkCountFor(h.contentLength.value)
  ELSE 1

\* --------------------------------------------------------------- getChunks
RECURSIVE getChunksFrom(_, _, _)
\* (the loop with `end = Math.min(i + chunkSize, fileSize - 1)`)
getChunksFromOverlapping(i, chunkSize, size) ==
  IF i < size
  THEN <<[start |-> i, end |-> Min(i + chunkSize, size - 1)]>>
         \o getChunksFrom(i + chunkSize, chunkSize, size)
  ELSE <<>>

\* for (let i = 0; i < fileSize; i += chunkSize) chunks.push({start: i, end})
getChunksFrom(i, chunkSize, size) ==
  IF i < size
  THEN <<[start |-> i, end |-> Min(i + chunkSize - 1, size - 1)]>>
         \o getChunksFrom(i + chunkSize, chunkSize, size)
  ELSE <<>>

\* (a chunk size rounded down instead of up)
getChunksRoundedDown(size, count) ==
  getChunksFrom(0, Max(1, size \div count), size)

\* getChunks(fileSize) with this.chunkCount = count
getChunks(size, count) == getChunksFrom(0, Ceil(size, count), size)

\* ------------------------------------------------------------------- state
VARIABLES
  remoteSize,  \* environment: the length of the remote resource
  options,     \* options.chunkCount ?? CHUNK_COUNT, as given to the constructor
  url,         \* this.url, a sequence of characters
  protocolClient, \* this.protocolClient: "http" or "https"
  requests,    \* the HTTP requests issued so far, in order
  clients,     \* the client each of these requests was issued through
  chunkCount,  \* this.chunkCount
  pc,          \* where download() stands
  probe,       \* the request of getFileSize: "none", "sent", "responded", "error"
  fileSize,    \* const fileSize of download()
  tasks,       \* the downloadChunk invocations of the run, in launch order
  file,        \* the output file: exists, len, stale (length of old content)
  writes,      \* the byte intervals written to the output file by the run
  trace,       \* the events emitted, in emission order
  thrown,      \* the error download() rejected with
  firstError,  \* the first error of the run (NoError while there is none)
  alive,       \* FALSE once an uncaught exception has ended the process
  planSize, planCount, planOut, planPc,  \* the planner on its own (SpecPlan)
  probeHeaders, \* size discovery on its own (SpecProbe): the probe's answer
  earlier      \* runs in a row (SpecRuns): what the earlier runs left behind

vars == <<remoteSize, options, url, protocolClient, requests, clients,
          chunkCount, pc, probe, fileSize, tasks,
          file, writes, trace, thrown, firstError, alive,
          planSize, planCount, planOut, planPc, probeHeaders, earlier>>
\* The variables that only the specifications of single operations and of
\* runs in a row change.
planVars == <<planSize, planCount, planOut, planPc, probeHeaders, earlier>>
\* What a run is given and never changes.
given == <<remoteSize, options, url, protocolClient>>

\* ------------------------------------------------------------- environment
\* Remote sizes: empty, small, exactly at the policy's threshold, and the
\* smallest size of a two-chunk run.
RemoteSizes == {0, 1000, THRESHOLD, THRESHOLD + 1}
\* The same, with the smallest size of a k-chunk run for each k up to
\* MaxChunks.
RemoteSizesUpTo(n) == RemoteSizes \cup {(k - 1) * THRESHOLD + 1 : k \in 2..n}

\* options.chunkCount ?? CHUNK_COUNT
OptionChunkCounts == {CHUNK_COUNT, 1, 5}

\* What a server may answer to the probe `Range: bytes=0-0` of a resource of
\* length r: 206 with Content-Range (and the length of the one byte sent),
\* 200 with the full Content-Length, neither header (chunked encoding), or
\* an unsatisfied-range answer `bytes */r` without a length.
ProbeHeaders(r) ==
  { [contentRange |-> ContentRange(0, 0, r), contentLength |-> ContentLength(1)],
    [contentRange |-> NoContentRange, contentLength |-> ContentLength(r)],
    [contentRange |-> NoContentRange, contentLength |-> NoContentLength],
    [contentRange |-> ContentRange(-1, -1, r), contentLength |-> NoContentLength] }

\* Every combination of no, a usable and an unusable Content-Range with no
\* Content-Length, the length of the one byte sent and the full length.
AllProbeHeaders(r) ==
  [contentRange : {NoContentRange, ContentRange(0, 0, r), ContentRange(-1, -1, r)},
   contentLength : {NoContentLength, ContentLength(1), ContentLength(r)}]
NoHeaders == [contentRange |-> NoContentRange, contentLength |-> NoContentLength]

\* URLs: every spelling of the schemes https: and http: in lower and upper
\* case letters, and URLs that only resemble an https URL.
RECURSIVE Spellings(_)
Spellings(word) ==
  IF word = <<>> THEN {<<>>}
  ELSE {<<c>> \o rest : c \in {word[1][1], word[1][2]}, rest \in Spellings(Tail(word))}
Schemes ==
  LET http == <<<<"h", "H">>, <<"t", "T">>, <<"t", "T">>, <<"p", "P">>>>
  IN Spellings(http \o <<<<"s", "S">>, <<":", ":">>>>)
    \cup Spellings(http \o <<<<":", ":">>>>)
    \cup { <<"f", "t", "p", ":">>, <<"h", "t", "t", "p", "s">>, <<>>,
           <<"/", "h", "t", "t", "p", "s", ":">>, <<"h", "t", "t", "p", "s", "/">> }
Urls == {scheme \o <<"/", "/", "a">> : scheme \in Schemes}
DefaultUrl == <<"h", "t", "t", "p", "s", ":", "/", "/", "a">>

\* Response statuses of a chunk request.
Statuses == {200, 206, 404}

\* The output path before the run: no file, or a file longer than the
\* remote resource.
NoFile == [exists |-> FALSE, len |-> 0, stale |-> 0]
OldFile(n) == [exists |-> TRUE, len |-> n, stale |-> n]

\* Length of the body a server sends for task t: the whole resource for a
\* request without Range header and for a 200 answer (Range ignored), the
\* requested range (cut at the end of the resource) for a 206 answer.
BodyLength(t, status) ==
  IF t.end = Infinity \/ status # 206 THEN remoteSize
  ELSE Max(0, Min(t.end, remoteSize - 1) - t.start + 1)

\* The transport delivers a body of length n in NumPieces(n) 'data' events
\* of PieceSize(n) bytes (the last one possibly shorter).
PieceSize(n) == Ceil(n, MaxPieces)
NumPieces(n) == IF n = 0 THEN 0 ELSE Ceil(n, PieceSize(n))

\* --------------------------------------------------------- downloadChunk
\* A downloadChunk(start, end) invocation right after protocolClient.get.
\*   st: "sent", "reqFailed", "statusRejected", "streaming", "aborted",
\*       "ended", "resFailed"
\*   stream: the write stream: "none", "opening", "open", "errored"
\*   delivered / flushed: 'data' events received / pieces written to the file
downloadChunk(start, end) ==
  [start |-> start, end |-> end, st |-> "sent", status |-> 0, body |-> 0,
   delivered |-> 0, promise |-> "pending", reason |-> NoError,
   stream |-> "none", flushed |-> 0]

\* The Range header of a request: <<first, last>> for `bytes=first-last`,
\* <<>> for a request without one.
NoRange == <<>>
Range(first, last) == <<first, last>>
\* A request as the server sees it: the probe of getFileSize or the GET of a
\* downloadChunk, with its Range header.
Request(kind, range) == [kind |-> kind, range |-> range]
\* protocolClient.request(url, {method: 'GET', headers: {range: 'bytes=0-0'}})
ProbeRequest == Request("probe", Range(0, 0))
\* (a Range header that treats `end` as exclusive)
ChunkRequestEndExclusive(start, end) ==
  Request("chunk", IF end = Infinity THEN NoRange ELSE Range(start, end + 1))

\* end === Infinity ? {} : {headers: {Range: `bytes=${start}-${end}`}}
ChunkRequest(start, end) ==
  Request("chunk", IF end = Infinity THEN NoRange ELSE Range(start, end))

\* (an error handler that notifies but does not settle the promise)
rejectForgotten(t, err) == t

\* resolve() / reject(err) of a task's promise: settling twice is a no-op.
resolve(t) == IF t.promise = "pending" THEN [t EXCEPT !.promise = "resolved"] ELSE t
reject(t, err) ==
  IF t.promise = "pending"
  THEN [t EXCEPT !.promise = "rejected", !.reason = err] ELSE t

\* fs.createWriteStream(outputPath, {start, flags: 'r+'}): piece k of task t
\* goes to these file offsets.
PieceLo(t, k) == t.start + (k - 1) * PieceSize(t.body)
PieceHi(t, k) == t.start + Min(k * PieceSize(t.body), t.body) - 1

\* ------------------------------------------------------------- download()
\* (a join whose catch block runs for every task that rejects)
AwaitingEachTask == pc \in {"awaitChunk", "awaitAll", "rejected"}
\* download() is suspended at `await this.downloadChunk(0, Infinity)` or at
\* `await Promise.all(tasks)`.
Awaiting == pc \in {"awaitChunk", "awaitAll"}

\* (a join that the first task to resolve satisfies, as Promise.any does)
AnyResolved(ts) == \E i \in DOMAIN ts : ts[i].promise = "resolved"
\* Promise.all(tasks) resolves when every task has resolved ...
AllResolved(ts) == \A i \in DOMAIN ts : ts[i].promise = "resolved"
\* ... and rejects as soon as one task rejects.
AnyRejected(ts) == \E i \in DOMAIN ts : ts[i].promise = "rejected"

\* (a catch block that emits DOWNLOAD_FAILED and does not rethrow)
CatchSwallows(err, evs) ==
  /\ trace' = EmitAll(trace, evs \o <<Event(DOWNLOAD_FAILED, 0, err)>>)
  /\ pc' = "resolved"
  /\ thrown' = NoError

\* catch (err) { this.emit(DOWNLOAD_FAILED, err); throw err; }
\* evs are the events the failing code emitted before it threw.
Catch(err, evs) ==
  /\ trace' = EmitAll(trace, evs \o <<Event(DOWNLOAD_FAILED, 0, err)>>)
  /\ pc' = "rejected"
  /\ thrown' = err

\* The first error of the run.
Note(err) == firstError' = IF firstError = NoError THEN err ELSE firstError

\* (Settle with a cancelling join: the first rejection destroys the requests
\* of the tasks still in flight.)
SettleAndAbort(ts, evs) ==
  /\ tasks' = IF Awaiting /\ AnyRejected(ts)
               THEN [i \in DOMAIN ts |->
                      IF ts[i].promise = "pending"
                      THEN [ts[i] EXCEPT !.st = "destroyed"] ELSE ts[i]]
               ELSE ts
  /\ IF Awaiting /\ AnyRejected(ts)
     THEN Catch((ts[CHOOSE i \in DOMAIN ts : ts[i].promise = "rejected"]).reason, evs)
     ELSE IF Awaiting /\ AllResolved(ts)
     THEN /\ trace' = EmitAll(trace, evs \o <<Event(DOWNLOAD_COMPLETE, 0, NoError)>>)
          /\ pc' = "resolved"
          /\ UNCHANGED thrown
     ELSE /\ trace' = EmitAll(trace, evs)
          /\ UNCHANGED <<pc, thrown>>

\* A callback of task c has run: it left the tasks as ts and emitted evs.
\* If download() is awaiting and the callback settled what it awaits, its
\* continuation runs next: `await` throws into the catch block on the first
\* rejection, and DOWNLOAD_COMPLETE follows once every task has resolved.
Settle(ts, evs) ==
  /\ tasks' = ts
  /\ IF Awaiting /\ AnyRejected(ts)
     THEN Catch((ts[CHOOSE i \in DOMAIN ts : ts[i].promise = "rejected"]).reason, evs)
     ELSE IF Awaiting /\ AllResolved(ts)
     THEN /\ trace' = EmitAll(trace, evs \o <<Event(DOWNLOAD_COMPLETE, 0, NoError)>>)
          /\ pc' = "resolved"
          /\ UNCHANGED thrown
     ELSE /\ trace' = EmitAll(trace, evs)
          /\ UNCHANGED <<pc, thrown>>

\* ------------------------------------------------------------------ Init
\* The state after `new Downloadr(options)`, before download() is called,
\* for a remote resource whose size is one of sizes and a chunkCount option
\* that is one of counts.
InitRunAt(sizes, counts, urls) ==
  /\ url \in urls
  /\ protocolClient = getProtocolClient(url)
  /\ clients = <<>>
  /\ remoteSize \in sizes
  /\ options \in counts
  /\ chunkCount = options
  /\ requests = <<>>
  /\ pc = "idle"
  /\ probe = "none"
  /\ fileSize = 0
  /\ tasks = <<>>
  /\ file \in {NoFile, OldFile(remoteSize + StaleTail)}
  /\ writes = {}
  /\ trace = <<>>
  /\ thrown = NoError
  /\ firstError = NoError
  /\ alive = TRUE

\* The same for the one URL of the specifications that do not vary it.
InitRun(sizes, counts) == InitRunAt(sizes, counts, {DefaultUrl})

\* The same, with the planner and the probe's answer not given beforehand:
\* the answer to the probe is chosen when it arrives.
InitWith(sizes, counts) ==
  /\ InitRun(sizes, counts)
  /\ planSize = 0 /\ planCount = 1 /\ planOut = <<>> /\ planPc = "off"
  /\ probeHeaders = NoHeaders
  /\ earlier = <<>>

\* download() reads this.chunkCount only after getFileSize has assigned it
\* (SpecProbe and SpecOptions run every option), so the specifications with
\* the larger state spaces run the default option.
Init == InitWith(RemoteSizes, {CHUNK_COUNT})
InitEvents == InitWith(RemoteSizesUpTo(MaxChunks), {CHUNK_COUNT})

\* --------------------------------------------------------------- actions
\* download() is called: getFileSize() issues the probe request.
Download ==
  /\ alive /\ pc = "idle"
  /\ pc' = "getFileSize"
  /\ probe' = "sent"
  /\ requests' = Append(requests, ProbeRequest)
  /\ clients' = Append(clients, protocolClient)
  /\ UNCHANGED <<given, chunkCount, fileSize, tasks, file, writes, trace,
                 thrown, firstError, alive, planVars>>

\* (a response callback that rejects when no header tells the size)
getFileSizeResponseStrict(h) ==
  /\ alive /\ pc = "getFileSize" /\ probe = "sent"
  /\ probe' = "responded"
  /\ chunkCount' = ResolvedChunkCount(h)
  /\ fileSize' = ResolvedSize(h)
  /\ IF ResolvedSize(h) = UNKNOWN
     THEN Catch(TransportError("probe", 0), <<>>) /\ Note(TransportError("probe", 0))
     ELSE pc' = "resumed" /\ UNCHANGED <<trace, thrown, firstError>>
  /\ UNCHANGED <<given, requests, clients, tasks, file, writes, alive, planVars>>

\* (a response callback whose no-header branch leaves this.chunkCount alone)
getFileSizeResponseKeepsCount(h) ==
  /\ alive /\ pc = "getFileSize" /\ probe = "sent"
  /\ probe' = "responded"
  /\ chunkCount' = IF ResolvedSize(h) = UNKNOWN THEN chunkCount
                   ELSE ResolvedChunkCount(h)
  /\ fileSize' = ResolvedSize(h)
  /\ pc' = "resumed"
  /\ UNCHANGED <<given, requests, clients, tasks, file, writes, trace, thrown, firstError,
                 alive, planVars>>

\* The response callback of getFileSize: sets this.chunkCount and resolves
\* with the size; download() resumes after `await this.getFileSize()`.
getFileSizeResponse(h) ==
  /\ alive /\ pc = "getFileSize" /\ probe = "sent"
  /\ probe' = "responded"
  /\ chunkCount' = ResolvedChunkCount(h)
  /\ fileSize' = ResolvedSize(h)
  /\ pc' = "resumed"
  /\ UNCHANGED <<given, requests, clients, tasks, file, writes, trace, thrown, firstError,
                 alive, planVars>>

\* req.on('error', reject) of getFileSize: download() catches the rejection.
getFileSizeError ==
  /\ alive /\ pc = "getFileSize" /\ probe = "sent"
  /\ probe' = "error"
  /\ Catch(TransportError("probe", 0), <<>>)
  /\ Note(TransportError("probe", 0))
  /\ UNCHANGED <<given, requests, clients, chunkCount, fileSize, tasks, file, writes, alive,
                 planVars>>

\* (a branch condition that tests the size only)
SingleFetchUnknownOnly == fileSize = UNKNOWN

\* if (fileSize === -1 || this.chunkCount === 1)
SingleFetch == fileSize = UNKNOWN \/ chunkCount = 1

\* (the single-fetch branch emitting DOWNLOAD_START only after the await)
downloadSingleStartLate ==
  /\ alive /\ pc = "resumed" /\ SingleFetch
  /\ tasks' = <<downloadChunk(0, Infinity)>>
  /\ requests' = Append(requests, ChunkRequest(0, Infinity))
  /\ clients' = Append(clients, protocolClient)
  /\ pc' = "awaitChunk"
  /\ UNCHANGED <<given, chunkCount, probe, fileSize, file, writes, trace,
                 thrown, firstError, alive, planVars>>

\* The single-fetch branch: DOWNLOAD_START, then downloadChunk(0, Infinity).
downloadSingle ==
  /\ alive /\ pc = "resumed" /\ SingleFetch
  /\ trace' = EmitAll(trace, <<Event(DOWNLOAD_START, 0, NoError)>>)
  /\ tasks' = <<downloadChunk(0, Infinity)>>
  /\ requests' = Append(requests, ChunkRequest(0, Infinity))
  /\ clients' = Append(clients, protocolClient)
  /\ pc' = "awaitChunk"
  /\ UNCHANGED <<given, chunkCount, probe, fileSize, file, writes, thrown,
                 firstError, alive, planVars>>

\* fs.openSync(outputPath, 'w'); fs.ftruncateSync(fd, fileSize); fs.closeSync(fd)
\* (the preallocation without ftruncateSync)
PreallocatedNotExtended(f, size) == [exists |-> TRUE, len |-> 0, stale |-> 0]
\* The result of the three calls when none throws.
Preallocated(f, size) == [exists |-> TRUE, len |-> size, stale |-> 0]

\* The multi-chunk branch up to the preallocation.  openSync or ftruncateSync
\* may throw (outcome "open", "truncate"): download() catches it.
preallocate(outcome) ==
  /\ alive /\ pc = "resumed" /\ ~SingleFetch
  /\ CASE outcome = "ok" ->
            /\ file' = Preallocated(file, fileSize)
            /\ pc' = "preallocated"
            /\ UNCHANGED <<trace, thrown, firstError>>
       [] outcome = "open" ->
            /\ UNCHANGED file
            /\ Catch(FsError(1), <<>>)
            /\ Note(FsError(1))
       [] outcome = "truncate" ->
            /\ file' = [exists |-> TRUE, len |-> 0, stale |-> 0]
            /\ Catch(FsError(2), <<>>)
            /\ Note(FsError(2))
  /\ UNCHANGED <<given, requests, clients, chunkCount, probe, fileSize, tasks, writes, alive,
                 planVars>>

\* chunks.map((chunk) => this.downloadChunk(chunk.start, chunk.end))
LaunchAll(chunks) ==
  [i \in 1..Len(chunks) |-> downloadChunk(chunks[i].start, chunks[i].end)]

\* The multi-chunk branch after the preallocation: getChunks, DOWNLOAD_START,
\* one downloadChunk per range, await Promise.all.
downloadChunks ==
  /\ alive /\ pc = "preallocated"
  /\ LET ts == LaunchAll(getChunks(fileSize, chunkCount))
         start == <<Event(DOWNLOAD_START, 0, NoError)>>
     IN /\ tasks' = ts
        /\ requests' = requests \o [i \in DOMAIN ts |-> ChunkRequest(ts[i].start, ts[i].end)]
        /\ clients' = clients \o [i \in DOMAIN ts |-> protocolClient]
        /\ IF ts = <<>>
           THEN /\ trace' = EmitAll(trace, start \o <<Event(DOWNLOAD_COMPLETE, 0, NoError)>>)
                /\ pc' = "resolved"
           ELSE /\ trace' = EmitAll(trace, start)
                /\ pc' = "awaitAll"
  /\ UNCHANGED <<given, chunkCount, probe, fileSize, file, writes, thrown,
                 firstError, alive, planVars>>

\* (a status test that accepts partial content only)
AcceptedPartialOnly(status) == status = 206

\* What the response callback of downloadChunk does with the status.
Accepted(status) == status = 206 \/ status = 200

\* (a response callback that creates the write stream before the status test)
ResponseStreamFirst(c, status) ==
  /\ alive /\ c \in DOMAIN tasks /\ tasks[c].st = "sent"
  /\ IF ~Accepted(status)
     THEN /\ Settle([tasks EXCEPT ![c] =
                       reject([@ EXCEPT !.st = "statusRejected", !.status = status,
                                        !.stream = "opening"],
                              StatusError(c, status))], <<>>)
          /\ Note(StatusError(c, status))
     ELSE /\ Settle([tasks EXCEPT ![c] =
                       [@ EXCEPT !.st = "streaming", !.status = status,
                                 !.body = BodyLength(tasks[c], status),
                                 !.stream = "opening"]], <<>>)
          /\ UNCHANGED firstError
  /\ UNCHANGED <<given, requests, clients, chunkCount, probe, fileSize, file, writes, alive,
                 planVars>>

\* The response callback of protocolClient.get for task c.
Response(c, status) ==
  /\ alive /\ c \in DOMAIN tasks /\ tasks[c].st = "sent"
  /\ IF ~Accepted(status)
     THEN /\ Settle([tasks EXCEPT ![c] =
                       reject([@ EXCEPT !.st = "statusRejected", !.status = status],
                              StatusError(c, status))], <<>>)
          /\ Note(StatusError(c, status))
     ELSE /\ Settle([tasks EXCEPT ![c] =
                       [@ EXCEPT !.st = "streaming", !.status = status,
                                 !.body = BodyLength(tasks[c], status),
                                 !.stream = "opening"]], <<>>)
          /\ UNCHANGED firstError
  /\ UNCHANGED <<given, requests, clients, chunkCount, probe, fileSize, file, writes, alive,
                 planVars>>

\* res.on('data'): the piece goes to the write stream through the pipe (if
\* the stream has not failed) and CHUNK_DOWNLOAD_PROGRESS is emitted.
ResData(c) ==
  /\ alive /\ c \in DOMAIN tasks /\ tasks[c].st = "streaming"
  /\ tasks[c].delivered < NumPieces(tasks[c].body)
  /\ Settle([tasks EXCEPT ![c].delivered = @ + 1],
            <<Event(CHUNK_DOWNLOAD_PROGRESS, c, NoError)>>)
  /\ UNCHANGED <<given, requests, clients, chunkCount, probe, fileSize, file, writes,
                 firstError, alive, planVars>>

\* res.on('end'): CHUNK_DOWNLOADED, resolve().
ResEnd(c) ==
  /\ alive /\ c \in DOMAIN tasks /\ tasks[c].st = "streaming"
  /\ tasks[c].delivered = NumPieces(tasks[c].body)
  /\ Settle([tasks EXCEPT ![c] = resolve([@ EXCEPT !.st = "ended"])],
            <<Event(CHUNK_DOWNLOADED, c, NoError)>>)
  /\ UNCHANGED <<given, requests, clients, chunkCount, probe, fileSize, file, writes,
                 firstError, alive, planVars>>

\* res.on('error'): CHUNK_DOWNLOAD_FAILED, reject(err).  The response stream
\* fails while the body is streaming, or is destroyed ('aborted') after the
\* socket error that the request has already reported.
ResError(c) ==
  /\ alive /\ c \in DOMAIN tasks /\ tasks[c].st \in {"streaming", "aborted"}
  /\ Settle([tasks EXCEPT ![c] =
               reject([@ EXCEPT !.st = "resFailed"], TransportError("res", c))],
            <<Event(CHUNK_DOWNLOAD_FAILED, c, TransportError("res", c))>>)
  /\ Note(TransportError("res", c))
  /\ UNCHANGED <<given, requests, clients, chunkCount, probe, fileSize, file, writes, alive,
                 planVars>>

\* req.on('error'): CHUNK_DOWNLOAD_FAILED, reject(err).  The socket fails
\* before the response arrives or while the body is streaming.
ReqError(c) ==
  /\ alive /\ c \in DOMAIN tasks /\ tasks[c].st \in {"sent", "streaming"}
  /\ Settle([tasks EXCEPT ![c] =
               reject([@ EXCEPT !.st = IF @ = "sent" THEN "reqFailed" ELSE "aborted"],
                      TransportError("req", c))],
            <<Event(CHUNK_DOWNLOAD_FAILED, c, TransportError("req", c))>>)
  /\ Note(TransportError("req", c))
  /\ UNCHANGED <<given, requests, clients, chunkCount, probe, fileSize, file, writes, alive,
                 planVars>>

\* The write stream of task c, fs.createWriteStream(outputPath, {start,
\* flags: 'r+'}), opens the file: 'r+' neither creates nor truncates it.
FileOpen(c) ==
  /\ alive /\ c \in DOMAIN tasks /\ tasks[c].stream = "opening"
  /\ file.exists
  /\ tasks' = [tasks EXCEPT ![c].stream = "open"]
  /\ UNCHANGED <<given, requests, clients, chunkCount, pc, probe, fileSize, file, writes,
                 trace, thrown, firstError, alive, planVars>>

\* A write stream emits 'error'.  downloadChunk registers no 'error' listener
\* on it, so the pipe is undone (nothing more is written) and the error is
\* an uncaught exception: it ends the process unless the host application
\* handles uncaught exceptions (handled).
StreamError(c, handled) ==
  /\ tasks' = [tasks EXCEPT ![c].stream = "errored"]
  /\ alive' = handled
  /\ UNCHANGED <<given, requests, clients, chunkCount, pc, probe, fileSize, file, writes,
                 trace, thrown, firstError, planVars>>

\* The open of the write stream fails: there is no file at outputPath.
FileOpenFails(c, handled) ==
  /\ alive /\ c \in DOMAIN tasks /\ tasks[c].stream = "opening"
  /\ ~file.exists
  /\ StreamError(c, handled)

\* The write stream of task c writes its next buffered piece at its offset.
FileWrite(c) ==
  /\ alive /\ c \in DOMAIN tasks /\ tasks[c].stream = "open"
  /\ tasks[c].flushed < tasks[c].delivered
  /\ LET k == tasks[c].flushed + 1
         lo == PieceLo(tasks[c], k)
         hi == PieceHi(tasks[c], k)
     IN /\ writes' = writes \cup {[chunk |-> c, lo |-> lo, hi |-> hi]}
        /\ file' = [file EXCEPT !.len = Max(@, hi + 1)]
  /\ tasks' = [tasks EXCEPT ![c].flushed = @ + 1]
  /\ UNCHANGED <<given, requests, clients, chunkCount, pc, probe, fileSize, trace, thrown,
                 firstError, alive, planVars>>

\* A write of the write stream of task c fails (disk full, I/O error).
FileWriteFails(c, handled) ==
  /\ alive /\ c \in DOMAIN tasks /\ tasks[c].stream = "open"
  /\ tasks[c].flushed < tasks[c].delivered
  /\ StreamError(c, handled)

\* The callbacks of download(), of the probe and of the chunk requests.
NextEvents ==
  \/ Download
  \/ \E h \in ProbeHeaders(remoteSize) : getFileSizeResponse(h)
  \/ getFileSizeError
  \/ downloadSingle
  \/ \E outcome \in {"ok", "open", "truncate"} : preallocate(outcome)
  \/ downloadChunks
  \/ \E c \in DOMAIN tasks, status \in Statuses : Response(c, status)
  \/ \E c \in DOMAIN tasks : ResData(c)
  \/ \E c \in DOMAIN tasks : ResEnd(c)
  \/ \E c \in DOMAIN tasks : ResError(c)
  \/ \E c \in DOMAIN tasks : ReqError(c)

\* The callbacks of the write streams.
NextFile ==
  \/ \E c \in DOMAIN tasks : FileOpen(c)
  \/ \E c \in DOMAIN tasks, handled \in BOOLEAN : FileOpenFails(c, handled)
  \/ \E c \in DOMAIN tasks : FileWrite(c)
  \/ \E c \in DOMAIN tasks, handled \in BOOLEAN : FileWriteFails(c, handled)

Next == NextEvents \/ NextFile

\* The whole program, with runs of one fetch and of two concurrent fetches.
Spec == Init /\ [][Next]_vars

\* The program without the write streams' own callbacks, with runs of up to
\* MaxChunks concurrent fetches.  The callbacks left out emit no event and
\* settle no promise: they change only the stream and flushed fields of a
\* task, the file, its writes, and alive.
SpecEvents == InitEvents /\ [][NextEvents]_vars

\* The steps download() takes by itself: the call, and the synchronous code
\* that follows `await this.getFileSize()`.
downloadSteps ==
  \/ Download
  \/ downloadSingle
  \/ \E outcome \in {"ok", "open", "truncate"} : preallocate(outcome)
  \/ downloadChunks

\* The whole program, where download() is called and the code after an
\* await runs once the awaited promise has settled (Node drains the
\* microtask queue).  Nothing is assumed of the transport and the file
\* system: a request may stay unanswered for ever.
SpecLive == Init /\ [][Next]_vars /\ WF_vars(downloadSteps)

\* ---------------------------------------------------------- runs in a row
\* A run has settled and all its requests have ended or failed; download()
\* is called again, on the same instance (this.chunkCount is what the run
\* left in it) or on a new instance made with the same options, for a remote
\* resource whose size may have changed.  Everything else is local to a run.
NextRun(size, sameInstance) ==
  /\ alive /\ pc \in {"resolved", "rejected"}
  /\ \A c \in DOMAIN tasks :
       tasks[c].st \in {"ended", "resFailed", "reqFailed", "statusRejected"}
  /\ Len(earlier) + 1 < MaxRuns
  /\ earlier' = Append(earlier, [chunkCount |-> chunkCount, sameInstance |-> sameInstance])
  /\ remoteSize' = size
  /\ chunkCount' = IF sameInstance THEN chunkCount ELSE options
  /\ pc' = "idle" /\ probe' = "none" /\ fileSize' = 0 /\ tasks' = <<>>
  /\ requests' = <<>> /\ clients' = <<>> /\ writes' = {} /\ trace' = <<>>
  /\ thrown' = NoError /\ firstError' = NoError
  /\ UNCHANGED <<options, url, protocolClient, file, alive,
                 planSize, planCount, planOut, planPc,
                 probeHeaders>>

NextRuns ==
  \/ NextEvents
  \/ \E size \in RemoteSizes, sameInstance \in BOOLEAN : NextRun(size, sameInstance)

\* Up to MaxRuns runs in a row, each of one or two fetches, for every
\* chunkCount option.
InitRuns == InitWith(RemoteSizes, OptionChunkCounts)
SpecRuns == InitRuns /\ [][NextRuns]_vars

\* -------------------------------------------------------- every kind of URL
\* Runs of one or two fetches for every URL of Urls.
ClientSizes == {1000, THRESHOLD + 1}
InitClient ==
  /\ InitRunAt(ClientSizes, {CHUNK_COUNT}, Urls)
  /\ planSize = 0 /\ planCount = 1 /\ planOut = <<>> /\ planPc = "off"
  /\ probeHeaders = NoHeaders
  /\ earlier = <<>>
SpecClient == InitClient /\ [][NextEvents]_vars

\* ------------------------------------------------ size discovery on its own
\* Remote sizes around every multiple of the threshold up to MaxProbeChunks
\* chunks, and the two sizes of the documented examples.
ProbeSizes ==
  RemoteSizes \cup {123456, 987654321}
    \cup {k * THRESHOLD + d : k \in 1..MaxProbeChunks, d \in {-1, 0, 1}}

InitProbe ==
  /\ InitRun(ProbeSizes, OptionChunkCounts)
  /\ planSize = 0 /\ planCount = 1 /\ planOut = <<>> /\ planPc = "off"
  /\ probeHeaders \in AllProbeHeaders(remoteSize)
  /\ earlier = <<>>

NextProbe ==
  \/ Download
  \/ getFileSizeResponse(probeHeaders)
  \/ getFileSizeError

\* download() up to the end of `await this.getFileSize()`, for every option,
\* every size of ProbeSizes and every answer of AllProbeHeaders.
SpecProbe == InitProbe /\ [][NextProbe]_vars

\* --------------------------------------------------- download() up to launch
\* download() from the call to the launch of the fetches, for every option
\* and every size of ProbeSizes: no callback of a chunk request runs.
InitLaunch == InitWith(ProbeSizes, OptionChunkCounts)
NextLaunch ==
  \/ \E h \in ProbeHeaders(remoteSize) : getFileSizeResponse(h)
  \/ getFileSizeError
  \/ downloadSteps
SpecLaunch == InitLaunch /\ [][NextLaunch]_vars

\* ------------------------------------------------------- the tests' scenario
\* The remote sizes of the test suite (1000000 and 200000000 bytes) with
\* every chunkCount option.
TestSizes == {1000000, 200000000}
InitOptions == InitWith(TestSizes, OptionChunkCounts)
SpecOptions == InitOptions /\ [][NextEvents]_vars

\* ------------------------------------------------- the planner on its own
\* getChunks applied to every fileSize up to MaxPlanSize and every
\* chunkCount from 1 to MaxPlanCount.
InitPlan ==
  /\ remoteSize = 0 /\ options = CHUNK_COUNT /\ chunkCount = CHUNK_COUNT
  /\ url = DefaultUrl /\ protocolClient = getProtocolClient(url) /\ clients = <<>>
  /\ requests = <<>> /\ pc = "idle" /\ probe = "none"
  /\ fileSize = 0 /\ tasks = <<>> /\ file = NoFile /\ writes = {}
  /\ trace = <<>> /\ thrown = NoError /\ firstError = NoError /\ alive = TRUE
  /\ probeHeaders = NoHeaders /\ earlier = <<>>
  /\ planSize \in 0..MaxPlanSize
  /\ planCount \in 1..MaxPlanCount
  /\ planOut = <<>>
  /\ planPc = "call"

Plan ==
  /\ planPc = "call"
  /\ planOut' = getChunks(planSize, planCount)
  /\ planPc' = "returned"
  /\ UNCHANGED <<given, requests, clients, chunkCount, pc, probe, fileSize, tasks, file,
                 writes, trace, thrown, firstError, alive, planSize, planCount,
                 probeHeaders, earlier>>

NextPlan == Plan

SpecPlan == InitPlan /\ [][NextPlan]_vars

\* ================================================================= claims
\* Positions of the events of a given name in the trace.
At(type) == {k \in 1..Len(trace) : trace[k].type = type}
\* Positions of the events of a given name that task c emitted.
AtOf(type, c) == {k \in At(type) : trace[k].chunk = c}
\* A task whose fetch failed: its promise rejected.
Failed(c) == tasks[c].promise = "rejected"
\* The run went past size discovery into the multi-chunk branch.
MultiChunkRun == probe = "responded" /\ ~SingleFetch

\* C1: DOWNLOAD_COMPLETE is emitted only after the CHUNK_DOWNLOADED
\* notification of every chunk fetch the run launched, and only if no chunk
\* fetch of the run failed (single-fetch and multi-chunk mode alike).
C1_CompleteAfterAllChunks ==
  \A k \in At(DOWNLOAD_COMPLETE) :
    \A c \in DOMAIN tasks :
      /\ \E j \in AtOf(CHUNK_DOWNLOADED, c) : j < k
      /\ ~Failed(c)
      /\ AtOf(CHUNK_DOWNLOAD_FAILED, c) = {}

\* C1 witness: a multi-chunk run completed, after a CHUNK_DOWNLOADED of each
\* of its fetches.
C1_Witness ==
  /\ Len(tasks) >= 2
  /\ At(DOWNLOAD_COMPLETE) # {}
  /\ \A c \in DOMAIN tasks : AtOf(CHUNK_DOWNLOADED, c) # {}

\* C2 as stated: DOWNLOAD_START is the first event of every run, also of a
\* run that fails during size discovery or preallocation.
C2_StartIsFirstEvent == trace # <<>> => trace[1].type = DOWNLOAD_START

\* C2 amended: a run emits DOWNLOAD_START at most once; every chunk event
\* and DOWNLOAD_COMPLETE come after it; DOWNLOAD_FAILED comes after it too,
\* except in a run that fails during size discovery or preallocation, which
\* launches no fetch and emits DOWNLOAD_FAILED as its only event.
C2_StartBeforeChunkActivity ==
  /\ Cardinality(At(DOWNLOAD_START)) <= 1
  /\ \A k \in 1..Len(trace) :
       trace[k].type # DOWNLOAD_START =>
         \/ k > 1 /\ trace[1].type = DOWNLOAD_START
         \/ /\ trace = <<Event(DOWNLOAD_FAILED, 0, firstError)>>
            /\ tasks = <<>>
            /\ firstError.kind \in {"probe", "fs"}
  /\ tasks # <<>> => At(DOWNLOAD_START) # {}

\* C2 witness: a run that emitted DOWNLOAD_START, chunk events and then
\* DOWNLOAD_FAILED.
C2_Witness ==
  /\ Len(trace) >= 3
  /\ trace[1].type = DOWNLOAD_START
  /\ At(CHUNK_DOWNLOAD_PROGRESS) # {}
  /\ At(DOWNLOAD_FAILED) # {}

\* C3: every chunk fetch that fails (status neither 200 nor 206, or a
\* transport error) emits CHUNK_DOWNLOAD_FAILED carrying its error before
\* the failure reaches download(); a run in which the only failure is one
\* 404 answer has exactly one CHUNK_DOWNLOAD_FAILED, followed by exactly one
\* DOWNLOAD_FAILED.
C3_FailedChunkNotified ==
  \A c \in DOMAIN tasks :
    Failed(c) =>
      /\ \E j \in AtOf(CHUNK_DOWNLOAD_FAILED, c) :
           /\ trace[j].err = tasks[c].reason
           /\ \A k \in At(DOWNLOAD_FAILED) : trace[k].err = tasks[c].reason => j < k
      /\ (tasks[c].status = 404 /\ \A d \in DOMAIN tasks \ {c} : ~Failed(d))
           => Cardinality(At(CHUNK_DOWNLOAD_FAILED)) = 1
              /\ Cardinality(At(DOWNLOAD_FAILED)) = 1

\* C4: whenever size discovery, preallocation or a chunk fetch fails,
\* download() emits exactly one DOWNLOAD_FAILED, carrying the first error of
\* the run, and rejects with that same error, also when several fetches
\* fail.
C4_FailedOnceWithFirstError ==
  firstError # NoError =>
    /\ Cardinality(At(DOWNLOAD_FAILED)) = 1
    /\ \A k \in At(DOWNLOAD_FAILED) : trace[k].err = firstError
    /\ pc = "rejected"
    /\ thrown = firstError

\* C4 witness: two fetches of a run failed, the second one first.
C4_Witness ==
  /\ Len(tasks) >= 2
  /\ Failed(1) /\ Failed(2)
  /\ firstError.chunk = 2
  /\ At(DOWNLOAD_FAILED) # {}

\* Write w of the run lies within the byte range assigned to its task.
InRange(w) == tasks[w.chunk].start <= w.lo /\ w.hi <= tasks[w.chunk].end

\* As soon as one fetch has failed, DOWNLOAD_FAILED has been emitted and
\* download() has rejected, whatever the other fetches are doing.
FailsFast ==
  (\E c \in DOMAIN tasks : Failed(c)) => pc = "rejected" /\ At(DOWNLOAD_FAILED) # {}
\* After the failure a fetch in flight can still receive its response, its
\* data, its end or an error, and its write stream can still write.
NothingAborted ==
  (pc = "rejected" /\ alive) =>
    \A c \in DOMAIN tasks :
      /\ tasks[c].st = "sent" => ENABLED Response(c, 206) /\ ENABLED ReqError(c)
      /\ tasks[c].st = "streaming" =>
           /\ ENABLED ResData(c) \/ ENABLED ResEnd(c)
           /\ ENABLED ResError(c)
      /\ (tasks[c].stream = "open" /\ tasks[c].flushed < tasks[c].delivered)
           => ENABLED FileWrite(c)
\* The step in which download() rejects is the step of the one task that
\* fails, and it leaves every other task as it was.
FailureStepKeepsOthers ==
  (Awaiting /\ pc' = "rejected") =>
    \E c \in DOMAIN tasks :
      /\ ~Failed(c) /\ tasks'[c].promise = "rejected"
      /\ \A d \in DOMAIN tasks \ {c} : tasks'[d] = tasks[d]

\* C5: the join is fail-fast without cancellation: when one fetch of a run
\* fails while others are in flight, DOWNLOAD_FAILED is emitted and
\* download() rejects without waiting for them, no fetch in flight is
\* aborted, and the notifications and file writes of the remaining fetches
\* can still occur after DOWNLOAD_FAILED.
C5_FailFastWithoutCancellation ==
  /\ [](FailsFast /\ NothingAborted)
  /\ [][FailureStepKeepsOthers]_vars

\* C5 witness: after DOWNLOAD_FAILED, another fetch of the run emitted
\* CHUNK_DOWNLOAD_PROGRESS and CHUNK_DOWNLOADED and wrote to the file, while
\* a third notification, a CHUNK_DOWNLOAD_FAILED, also followed the failure.
C5_Witness ==
  \E k \in At(DOWNLOAD_FAILED) :
    /\ \E c \in DOMAIN tasks :
         /\ \E j \in AtOf(CHUNK_DOWNLOAD_PROGRESS, c) : j > k
         /\ \E j \in AtOf(CHUNK_DOWNLOADED, c) : j > k
         /\ \E w \in writes : w.chunk = c
    /\ \E j \in At(CHUNK_DOWNLOAD_FAILED) : j > k

\* C6: in a multi-chunk run every byte a fetch writes lies within the range
\* [start, end] assigned to it, whether the response was a 206 or a 200, so
\* that no two fetches write the same offset.
C6_WritesWithinRange ==
  MultiChunkRun =>
    /\ \A w \in writes : InRange(w)
    /\ \A v, w \in writes : v.chunk # w.chunk => v.hi < w.lo \/ w.hi < v.lo

\* C7: at the moment DOWNLOAD_COMPLETE is emitted and download() resolves,
\* every byte received on every response stream has been written to the
\* file, and no write stream has failed.
C7_CompleteMeansWritten ==
  [][(pc # "resolved" /\ pc' = "resolved") =>
       \A c \in DOMAIN tasks' :
         /\ tasks'[c].flushed = tasks'[c].delivered
         /\ tasks'[c].stream # "errored"]_vars

\* C8: in single-fetch and in multi-chunk mode, download() creates the
\* output file or truncates an existing one before any chunk byte is
\* written: once the run has written a byte the file holds nothing of its
\* old content, and a run that completes has produced the file.
C8_FileCreatedOrTruncated ==
  /\ writes # {} => file.stale = 0
  /\ At(DOWNLOAD_COMPLETE) # {} => file.exists

\* C9: in a multi-chunk run the file has been truncated and extended to
\* exactly fileSize before DOWNLOAD_START, before any chunk request and
\* before any chunk write, and while every write lies within its task's
\* range the length of the file stays fileSize.
C9_PreallocatedToFileSize ==
  (MultiChunkRun /\ (At(DOWNLOAD_START) # {} \/ tasks # <<>> \/ writes # {})) =>
    /\ file.exists
    /\ file.stale = 0
    /\ (\A w \in writes : InRange(w)) => file.len = fileSize

\* C9 witness: a multi-chunk run in which every task has written its whole
\* range and the file has the discovered size.
C9_Witness ==
  /\ MultiChunkRun
  /\ Len(tasks) >= 2
  /\ \A c \in DOMAIN tasks : \E w \in writes : w.chunk = c /\ w.hi = tasks[c].end
  /\ \A w \in writes : InRange(w)
  /\ file.len = fileSize

\* C10: for fileSize >= 1 and chunkCount >= 1 the ranges of getChunks are in
\* ascending order, start at 0, are contiguous and gapless, have
\* start <= end, and end at fileSize - 1.
C10_RangesPartitionFile ==
  (planPc = "returned" /\ planSize >= 1) =>
    /\ Len(planOut) >= 1
    /\ planOut[1].start = 0
    /\ planOut[Len(planOut)].end = planSize - 1
    /\ \A i \in 1..Len(planOut) : planOut[i].start <= planOut[i].end
    /\ \A i \in 1..(Len(planOut) - 1) : planOut[i].end = planOut[i + 1].start - 1

\* C10 witness: a plan of at least three ranges whose last range is shorter
\* than the others.
C10_Witness ==
  /\ planPc = "returned"
  /\ Len(planOut) >= 3
  /\ planOut[Len(planOut)].end - planOut[Len(planOut)].start
       < planOut[1].end - planOut[1].start

C12_RequestsMatchOption ==
  (fileSize = 200000000 /\ tasks # <<>>) =>
    /\ Len(tasks) = options
    /\ At(DOWNLOAD_COMPLETE) # {} =>
         /\ Cardinality(At(CHUNK_DOWNLOADED)) = options
         /\ trace[1].type = DOWNLOAD_START
         /\ trace[Len(trace)].type = DOWNLOAD_COMPLETE

\* The run has launched the whole-file fetch / has entered the multi-chunk
\* branch (preallocation attempted or ranged fetches launched).
SinglePathTaken == tasks # <<>> /\ tasks[1].end = Infinity
MultiPathTaken ==
  \/ pc = "preallocated"
  \/ firstError.kind = "fs"
  \/ tasks # <<>> /\ tasks[1].end # Infinity
\* The names of the events emitted, progress events left out.
TraceWithoutProgress ==
  LET kept == SelectSeq(trace, LAMBDA e : e.type # CHUNK_DOWNLOAD_PROGRESS)
  IN [k \in 1..Len(kept) |-> kept[k].type]
\* The step of download() after size discovery goes by the discovered size
\* and the resolved chunk count; the single-fetch step leaves the file alone.
BranchBySizeAndCount ==
  pc = "resumed" =>
    IF fileSize = UNKNOWN \/ chunkCount = 1
    THEN /\ pc' = "awaitChunk"
         /\ tasks' = <<downloadChunk(0, Infinity)>>
         /\ file' = file
    ELSE /\ pc' \in {"preallocated", "rejected"}
         /\ tasks' = <<>>
\* On the single-fetch path the file changes only when a write stream writes.
SinglePathNoPreallocation ==
  SinglePathTaken' => (file' = file \/ writes' # writes)

\* C13: download() takes the single-fetch path exactly when the discovered
\* size is unknown or the resolved chunk count is 1, and the multi-chunk path
\* otherwise; the single-fetch path issues one request, does not preallocate
\* and on success emits DOWNLOAD_START, one CHUNK_DOWNLOADED,
\* DOWNLOAD_COMPLETE (progress events aside).
C13_SingleFetchPath ==
  /\ [][BranchBySizeAndCount /\ SinglePathNoPreallocation]_vars
  /\ [](SinglePathTaken => (fileSize = UNKNOWN \/ chunkCount = 1) /\ Len(tasks) = 1)
  /\ [](MultiPathTaken => ~(fileSize = UNKNOWN \/ chunkCount = 1))
  /\ []((SinglePathTaken /\ pc = "resolved") =>
          TraceWithoutProgress = <<DOWNLOAD_START, CHUNK_DOWNLOADED, DOWNLOAD_COMPLETE>>)

\* C13 witness: a single-fetch run of a resource of known size succeeded
\* after progress events, and its one fetch wrote to the file.
C13_Witness ==
  /\ SinglePathTaken /\ pc = "resolved"
  /\ fileSize # UNKNOWN
  /\ At(CHUNK_DOWNLOAD_PROGRESS) # {}
  /\ writes # {}

\* A probe response with neither a usable Content-Range nor a
\* Content-Length.
NoSizeHeaders(h) == ~sizeMatch(h.contentRange) /\ ~h.contentLength.present
\* Such a response does not fail the run: it yields the unknown size and the
\* chunk count 1.
NoSizeIsNoError ==
  \A h \in ProbeHeaders(remoteSize) :
    (NoSizeHeaders(h) /\ getFileSizeResponse(h)) =>
      /\ fileSize' = UNKNOWN /\ chunkCount' = 1
      /\ pc' = "resumed" /\ thrown' = NoError /\ trace' = trace
\* The requests of a run whose size is unknown, once past the branch.
WholeFileFetchOnly ==
  (probe = "responded" /\ fileSize = UNKNOWN /\ pc # "resumed") =>
    /\ requests = <<ProbeRequest, Request("chunk", NoRange)>>
    /\ Len(tasks) = 1
\* A 200 answer to that request is accepted, and the run resolves when the
\* response ends.
WholeFileFetchSucceedsOn200 ==
  (fileSize = UNKNOWN /\ tasks # <<>> /\ tasks[1].status = 200) =>
    /\ tasks[1].st # "statusRejected"
    /\ tasks[1].st = "ended" =>
         pc = "resolved" /\ thrown = NoError /\ At(DOWNLOAD_COMPLETE) # {}

C15_ContentRangeFirst ==
  probe = "responded" =>
    LET cr == probeHeaders.contentRange
        cl == probeHeaders.contentLength
    IN fileSize = IF cr.present /\ cr.first >= 0 /\ cr.last >= 0 /\ cr.total >= 0
                  THEN cr.total
                  ELSE IF cl.present THEN cl.value
                  ELSE -1

\* C15 witness: the answer `Content-Range: bytes 0-0/123456` with
\* `Content-Length: 1` gave the size 123456.
C15_Witness ==
  /\ probe = "responded"
  /\ probeHeaders.contentRange = ContentRange(0, 0, 123456)
  /\ probeHeaders.contentLength = ContentLength(1)
  /\ fileSize = 123456

\* A fetch fails on the response status exactly when the status is neither
\* 200 nor 206.
RejectedIffUnexpected(c) ==
  tasks[c].status # 0 =>
    (tasks[c].st = "statusRejected" <=> tasks[c].status \notin {200, 206})
\* Task c was rejected for its status.  An error's message is
\* `Unexpected status code: <code>` when its kind is "status".
StatusRejected(c) == tasks[c].st = "statusRejected"

\* C16 as stated: a fetch fails on the status iff it is neither 200 nor 206,
\* and then download() rejects with `Unexpected status code: <status>` and
\* never emits DOWNLOAD_COMPLETE.
C16_StatusErrorRejectsDownload ==
  \A c \in DOMAIN tasks :
    /\ RejectedIffUnexpected(c)
    /\ StatusRejected(c) =>
         /\ pc = "rejected"
         /\ thrown.kind = "status" /\ thrown.code = tasks[c].status
         /\ At(DOWNLOAD_COMPLETE) = {}

\* C16 amended: a fetch fails on the status iff it is neither 200 nor 206,
\* and then download() rejects and never emits DOWNLOAD_COMPLETE; it rejects
\* with the first error of the run, which is `Unexpected status code:
\* <status>` unless another fetch of the run failed earlier.
C16_StatusErrorFailsDownload ==
  \A c \in DOMAIN tasks :
    /\ RejectedIffUnexpected(c)
    /\ StatusRejected(c) =>
         /\ pc = "rejected"
         /\ thrown = firstError
         /\ (\A d \in DOMAIN tasks \ {c} : ~Failed(d)) =>
              thrown = StatusError(c, tasks[c].status)
         /\ At(DOWNLOAD_COMPLETE) = {}

\* C16 witness: in a multi-chunk run one fetch was answered 200 and ended,
\* another was answered 404, and download() rejected with the status error.
C16_Witness ==
  /\ Len(tasks) >= 2
  /\ \E c, d \in DOMAIN tasks :
       /\ tasks[c].status = 200 /\ tasks[c].st = "ended"
       /\ tasks[d].status = 404 /\ StatusRejected(d)
       /\ thrown = StatusError(d, 404)
  /\ pc = "rejected"

\* The requests issued after the probe.
ChunkRequests == SubSeq(requests, 2, Len(requests))
\* The fetches have been launched.
Launched == tasks # <<>>

\* C17: in a multi-chunk run the chunk requests are, range for range, the
\* plan of getChunks, each with the header `Range: bytes=<start>-<end>` of
\* its range, and there is no other chunk request; the whole-file fetch has
\* no Range header; the probe, the first and only probe request of the run,
\* has `Range: bytes=0-0`.
C17_OneRequestPerRange ==
  /\ requests # <<>> => requests[1] = [kind |-> "probe", range |-> <<0, 0>>]
  /\ \A k \in 2..Len(requests) : requests[k].kind = "chunk"
  /\ ~Launched => Len(requests) <= 1
  /\ (Launched /\ MultiChunkRun) =>
       LET plan == getChunks(fileSize, chunkCount)
       IN /\ Len(ChunkRequests) = Len(plan)
          /\ Len(tasks) = Len(plan)
          /\ \A i \in 1..Len(plan) :
               /\ ChunkRequests[i].range = <<plan[i].start, plan[i].end>>
               /\ tasks[i].start = plan[i].start /\ tasks[i].end = plan[i].end
  /\ (Launched /\ ~MultiChunkRun) =>
       ChunkRequests = <<[kind |-> "chunk", range |-> <<>>]>>

\* C17 witness: a multi-chunk run has issued the probe and one ranged
\* request per planned range, the ranges being different, and has got as far
\* as the end of one of the responses.
C17_Witness ==
  /\ MultiChunkRun /\ Len(tasks) >= 2
  /\ Len(requests) = 1 + Len(tasks)
  /\ requests[2].range = <<0, tasks[1].end>>
  /\ requests[3].range = <<tasks[1].end + 1, tasks[2].end>>
  /\ \E c \in DOMAIN tasks : tasks[c].st = "ended"

\* C18: for fileSize >= 1 and chunkCount >= 1 getChunks returns exactly
\* ceil(fileSize / ceil(fileSize / chunkCount)) ranges, never more than
\* chunkCount, and the single range [0, fileSize - 1] when chunkCount is 1;
\* for fileSize = 0 it returns the empty sequence.
C18_NumberOfRanges ==
  planPc = "returned" =>
    LET chunkSize == (planSize + planCount - 1) \div planCount
    IN /\ planSize >= 1 =>
            /\ Len(planOut) = (planSize + chunkSize - 1) \div chunkSize
            /\ Len(planOut) <= planCount
            /\ planCount = 1 => planOut = <<[start |-> 0, end |-> planSize - 1]>>
       /\ planSize = 0 => planOut = <<>>

\* C18 witness: a plan of fewer ranges than the chunk count asked for, for a
\* file of more bytes than that.
C18_Witness ==
  /\ planPc = "returned"
  /\ planSize > planCount
  /\ Len(planOut) >= 2
  /\ Len(planOut) < planCount

\* download() has settled its promise.
Settled == pc \in {"resolved", "rejected"}
\* The number of DOWNLOAD_COMPLETE and DOWNLOAD_FAILED events emitted.
Outcomes == Cardinality(At(DOWNLOAD_COMPLETE)) + Cardinality(At(DOWNLOAD_FAILED))
\* A chunk request that has not been answered and has not failed.
Unanswered(c) == tasks[c].st = "sent"
\* While no fetch has failed and some chunk request is unanswered, the run
\* has emitted neither outcome and has not settled.
WaitsForEveryRequest ==
  (Launched /\ (\A c \in DOMAIN tasks : ~Failed(c))
            /\ (\E c \in DOMAIN tasks : Unanswered(c))) =>
    Outcomes = 0 /\ ~Settled

\* The probe has been answered or has failed, and every chunk request has
\* ended its response or has reported an error.
RequestsDone ==
  /\ probe \in {"responded", "error"}
  /\ \A c \in DOMAIN tasks :
       tasks[c].st \in {"ended", "resFailed", "reqFailed", "aborted", "statusRejected"}

\* C19: there is no timeout or cancellation.  When the probe and every chunk
\* request eventually end their response or report an error, the run
\* eventually settles, having emitted exactly one of DOWNLOAD_COMPLETE and
\* DOWNLOAD_FAILED; while no fetch has failed and some chunk request has not
\* been answered, the run emits neither.
C19_SettlesOnlyThroughItsRequests ==
  /\ (<>[]RequestsDone) => <>Settled
  /\ [](Outcomes = IF Settled THEN 1 ELSE 0)
  /\ []WaitsForEveryRequest

\* C19 witness: a multi-chunk run settled once every one of its requests
\* had ended or failed, one of them having failed after the others ended.
C19_Witness ==
  /\ Settled /\ Outcomes = 1
  /\ Len(tasks) >= 2
  /\ \A c \in DOMAIN tasks : tasks[c].st \in {"ended", "resFailed", "reqFailed"}
  /\ \E c \in DOMAIN tasks : tasks[c].st = "ended"
  /\ \E c \in DOMAIN tasks : Failed(c)

\* The chunk count the size policy gives for a discovered size.
PolicyCount(size) ==
  IF size = UNKNOWN \/ size < 104857600 THEN 1
  ELSE (size + 104857599) \div 104857600

\* C20: in every run of a sequence of runs, on one instance or on new ones,
\* the run issues its own probe and its own chunk requests, and its chunk
\* count, its mode and its ranges follow from the size discovered in that
\* run alone, whatever chunk count an earlier run computed.
C20_NoLeakBetweenRuns ==
  /\ pc # "idle" => requests # <<>> /\ requests[1] = ProbeRequest
  /\ probe = "responded" => chunkCount = PolicyCount(fileSize)
  /\ Launched =>
       LET single == PolicyCount(fileSize) = 1
           plan == getChunks(fileSize, PolicyCount(fileSize))
       IN /\ SinglePathTaken <=> single
          /\ Len(tasks) = IF single THEN 1 ELSE Len(plan)
          /\ Len(requests) = 1 + Len(tasks)
          /\ ~single =>
               \A i \in 1..Len(plan) :
                 ChunkRequests[i].range = <<plan[i].start, plan[i].end>>

\* C20 witness: the second run on an instance whose first run computed the
\* chunk count 2 discovered a small size and completed with one request.
C20_Witness ==
  /\ Len(earlier) = 1
  /\ earlier[1].sameInstance /\ earlier[1].chunkCount = 2
  /\ fileSize = 1000 /\ chunkCount = 1
  /\ requests = <<ProbeRequest, Request("chunk", NoRange)>>
  /\ pc = "resolved"

\* The URL begins with `https:`, each letter in either case.
BeginsWithHttps ==
  /\ Len(url) >= 6
  /\ url[1] \in {"h", "H"} /\ url[2] \in {"t", "T"} /\ url[3] \in {"t", "T"}
  /\ url[4] \in {"p", "P"} /\ url[5] \in {"s", "S"} /\ url[6] = ":"

\* C21: the client is chosen from the URL, https for a URL that begins with
\* `https:` in any letter case and http for every other URL; the probe and
\* every chunk request of a run go through that client and none through the
\* other one.
C21_OneClientPerInstance ==
  /\ protocolClient = IF BeginsWithHttps THEN "https" ELSE "http"
  /\ Len(clients) = Len(requests)
  /\ \A k \in DOMAIN clients : clients[k] = protocolClient

\* C21 witness: a multi-chunk run for a URL spelled `HttPS:` issued its
\* probe and its chunk requests through the https client.
C21_Witness ==
  /\ Len(url) >= 6 /\ SubSeq(url, 1, 6) = <<"H", "t", "t", "P", "S", ":">>
  /\ Len(tasks) >= 2
  /\ Len(clients) = 1 + Len(tasks)
  /\ \A k \in DOMAIN clients : clients[k] = "https"

\* C22: download() never calls getChunks with fileSize 0: a discovered size
\* of 0 gives the chunk count 1 and the single-fetch path.  A run that takes
\* the multi-chunk branch has a fileSize above 104857600 and a chunk count
\* of at least 2, and launches at least 2 fetches.
C22_PlannerNeverSeesSmallFiles ==
  /\ (probe = "responded" /\ fileSize = 0) =>
       /\ chunkCount = 1
       /\ pc # "preallocated" /\ firstError.kind # "fs"
       /\ Launched => tasks = <<downloadChunk(0, Infinity)>>
  /\ MultiChunkRun =>
       /\ fileSize > 104857600
       /\ chunkCount >= 2
       /\ Launched => Len(tasks) >= 2 /\ Len(getChunks(fileSize, chunkCount)) >= 2

\* C22 witness: the smallest multi-chunk run, of 104857601 bytes, launched
\* two fetches.
C22_Witness ==
  /\ MultiChunkRun /\ fileSize = 104857601
  /\ Len(tasks) = 2
  /\ tasks[2].end = 104857600

C24_AtMostOneTerminalNotification ==
  \A c \in DOMAIN tasks :
    Cardinality(AtOf(CHUNK_DOWNLOADED, c))
      + Cardinality(AtOf(CHUNK_DOWNLOAD_FAILED, c)) <= 1

RejectedFetchTouchesNothing(c) ==
  /\ ~Accepted(tasks[c].status)
  /\ tasks[c].stream = "none"
  /\ tasks[c].delivered = 0 /\ tasks[c].flushed = 0
  /\ {w \in writes : w.chunk = c} = {}
  /\ AtOf(CHUNK_DOWNLOAD_PROGRESS, c) = {}
  /\ AtOf(CHUNK_DOWNLOADED, c) = {}
RejectionStepKeepsFile ==
  (\E c \in DOMAIN tasks :
     /\ ~StatusRejected(c)
     /\ c \in DOMAIN tasks' /\ tasks'[c].st = "statusRejected")
  => (file' = file /\ writes' = writes)
C26_StatusRejectionLeavesFile ==
  /\ [](\A c \in DOMAIN tasks : StatusRejected(c) => RejectedFetchTouchesNothing(c))
  /\ [][RejectionStepKeepsFile]_vars

\* C26 witness: of two concurrent fetches, one was rejected for status 404
\* and the other one has written bytes to the file.
C26_Witness ==
  \E c, d \in DOMAIN tasks :
    /\ StatusRejected(c) /\ tasks[c].status = 404
    /\ tasks[d].flushed > 0
    /\ \A w \in writes : w.chunk = d
    /\ file.exists /\ file.len = fileSize

====
